---- MODULE Spec2Model ----
(***************************************************************************)
(* Realtime state synchronisation of the Ontime dashboard.                 *)
(*                                                                         *)
(* The model follows the OntimeAPI client (lib/ontime-api.ts: the          *)
(* streaming connection, its timers, the inbound message handler and the   *)
(* listener set) and the React hooks built on it (hooks/useOntime.ts:      *)
(* useWebSocketConnection, useEventsWithStatus).                           *)
(*                                                                         *)
(* The browser runs one cooperative event loop: every action below is one  *)
(* task of that loop (an event handler or a timer callback) together with  *)
(* the promise continuations that run in the microtask checkpoint after    *)
(* it, which is what makes the action atomic.                              *)
(***************************************************************************)
EXTENDS Integers, Sequences, FiniteSets, TLC

(***************************************************************************)
(* Bounds of the model.                                                    *)
(***************************************************************************)
\* number of WebSocket objects that exist at a time
MaxSockets == 2
\* number of mounted instances of useWebSocketConnection
NumHooks == 2
\* longest rundown the status derivation is applied to
MaxEvents == 3

Sockets == 1..MaxSockets
Hooks == 1..NumHooks

(***************************************************************************)
(* JavaScript values, as far as the message handler looks at them.  Every  *)
(* value is a record tagged with its kind; an object carries exactly the   *)
(* keys it has, so that reading a missing key yields undefined.            *)
(***************************************************************************)
Undef == [t |-> "undefined"]
NullV == [t |-> "null"]
Num(n) == [t |-> "number", n |-> n]
Str(s) == [t |-> "string", s |-> s]
Bool(b) == [t |-> "boolean", b |-> b]
EmptyArray == [t |-> "array"]
ArrayOf(v) == [t |-> "array", items |-> <<v>>]

\* the `typeof` operator
TypeOf(v) ==
  CASE v.t = "undefined" -> "undefined"
    [] v.t = "number" -> "number"
    [] v.t = "string" -> "string"
    [] v.t = "boolean" -> "boolean"
    [] OTHER -> "object"

\* ToBoolean, as applied by `!x`, `x && y`, `x || y` and `if (x)`
Truthy(v) ==
  CASE v.t = "undefined" -> FALSE
    [] v.t = "null" -> FALSE
    [] v.t = "number" -> v.n # 0
    [] v.t = "string" -> v.s # ""
    [] v.t = "boolean" -> v.b
    [] OTHER -> TRUE

\* property read `v.k` on a non-null value
Get(v, k) == IF v.t = "object" /\ k \in DOMAIN v THEN v[k] ELSE Undef

\* String.prototype.toLowerCase on the topics of the model
ToLowerCase(s) ==
  CASE s = "TIMER" -> "timer"
    [] s = "Runtime" -> "runtime"
    [] s = "[object Object]" -> "[object object]"
    [] OTHER -> s

\* String(v) for the values String(topic || '') can be applied to
ToStringJS(v) ==
  CASE v.t = "string" -> v.s
    [] v.t = "number" -> IF v.n = 5 THEN "5" ELSE "0"
    [] v.t = "boolean" -> IF v.b THEN "true" ELSE "false"
    [] v.t = "array" -> IF "items" \in DOMAIN v THEN v.items[1].s ELSE ""
    [] OTHER -> "[object Object]"

(***************************************************************************)
(* Slices of the runtime snapshot (types/ontime.ts, RuntimeData).          *)
(***************************************************************************)
Slices == {"timer", "playback", "eventNow"}

Timer(current) == [t |-> "object", current |-> Num(current)]
Playback(state, selected) == [t |-> "object", state |-> Str(state), selectedEventId |-> selected]

T1 == Timer(0)
T2 == Timer(30000)
P1 == Playback("start", Str("21313f"))
P2 == Playback("pause", Str("421b5a"))
E1 == [t |-> "object", id |-> Str("21313f")]

TimerOnly == [t |-> "object", timer |-> T1]
TimerOnly2 == [t |-> "object", timer |-> T2]
PlaybackOnly == [t |-> "object", playback |-> P1]
PlaybackOnly2 == [t |-> "object", playback |-> P2]
FullSnapshot == [t |-> "object", timer |-> T2, playback |-> P2, eventNow |-> E1]

(***************************************************************************)
(* Inbound frames: event.data of a message event.                          *)
(***************************************************************************)
EmptyFrame == [kind |-> "empty"]
GarbageFrame == [kind |-> "garbage"]
BinaryFrame == [kind |-> "binary"]
Json(v) == [kind |-> "json", value |-> v]

MalformedFrames ==
  { EmptyFrame, GarbageFrame, BinaryFrame,
    Json(Num(0)), Json(Num(5)), Json(Str("")), Json(Str("x")), Json(Bool(TRUE)),
    Json(Bool(FALSE)), Json(NullV) }

ObjectFrames ==
  { Json([t |-> "object", topic |-> Str("timer"), payload |-> TimerOnly]),
    Json([t |-> "object", topic |-> Str("playback"), payload |-> PlaybackOnly]),
    Json([t |-> "object", topic |-> Str("Runtime"), payload |-> FullSnapshot]),
    Json([t |-> "object", topic |-> Str("new-topic"), payload |-> TimerOnly2]),
    Json([t |-> "object", topic |-> Str("new-topic"), timer |-> T2]),
    Json([t |-> "object", topic |-> Str("new-topic"), payload |-> Str("x")]),
    Json([t |-> "object", topic |-> Str("timer"), payload |-> Num(5)]),
    Json([t |-> "object", topic |-> Str("timer"), payload |-> NullV]),
    Json([t |-> "object", topic |-> NullV, payload |-> PlaybackOnly2]),
    Json([t |-> "object", topic |-> Num(5), payload |-> TimerOnly]),
    Json([t |-> "object", type |-> Str("timer"), data |-> TimerOnly]),
    Json([t |-> "object", type |-> Str("timer"), data |-> Num(5)]),
    Json([t |-> "object", type |-> Str("new-type"), playback |-> P1]),
    Json([t |-> "object", timer |-> T1, playback |-> P1]),
    Json(EmptyArray) }

AllFrames == MalformedFrames \cup ObjectFrames

\* the frames the server sends in the runs that explore the connection life cycle
Frames ==
  { GarbageFrame,
    Json([t |-> "object", topic |-> Str("timer"), payload |-> TimerOnly]) }

(***************************************************************************)
(* Message Normalizer: the onmessage handler of connectWebSocket and       *)
(* handleWebSocketMessage.                                                 *)
(***************************************************************************)
\* the debug log at the top of onmessage calls event.data.substring, which
\* is not a function on a binary frame: the TypeError is caught by the
\* outer try/catch of the handler
LogThrows(frame) == frame.kind = "binary"

\* `!event.data`
IsEmptyData(frame) == frame.kind = "empty"

\* JSON.parse(event.data) inside its own try/catch
JsonParse(frame) ==
  IF frame.kind = "json" THEN [ok |-> TRUE, value |-> frame.value]
  ELSE [ok |-> FALSE, value |-> Undef]

\* IsValidStructure without the typeof test
IsValidStructureTruthyOnly(pm) == Truthy(pm)

\* the negation of `!parsedMessage || typeof parsedMessage !== 'object'`
IsValidStructure(pm) == Truthy(pm) /\ TypeOf(pm) = "object"

\* an envelope selection that reads the type field before the topic field
SelectEnvelopeTypeFirst(pm) ==
  IF Get(pm, "type") # Undef
    THEN [topic |-> Get(pm, "type"),
          payload |-> IF Truthy(Get(pm, "data")) THEN Get(pm, "data") ELSE pm]
  ELSE IF Get(pm, "topic") # Undef
    THEN [topic |-> Get(pm, "topic"), payload |-> Get(pm, "payload")]
  ELSE [topic |-> Str("unknown-data"), payload |-> pm]

\* the three message formats: topic envelope, type envelope, direct data
SelectEnvelope(pm) ==
  IF Get(pm, "topic") # Undef
    THEN [topic |-> Get(pm, "topic"), payload |-> Get(pm, "payload")]
  ELSE IF Get(pm, "type") # Undef
    THEN [topic |-> Get(pm, "type"),
          payload |-> IF Truthy(Get(pm, "data")) THEN Get(pm, "data") ELSE pm]
  ELSE [topic |-> Str("unknown-data"), payload |-> pm]

validTopics ==
  { "ontime-clock", "clock", "runtime", "timer", "playback", "poll",
    "get-runtime", "get-timer", "get-playback", "ontime", "ontime-poll",
    "unknown-data", "error" }

\* a normalization that compares the topic as it is written
NormalizeTopicCaseSensitive(topic) ==
  LET coerced == IF TypeOf(topic) # "string"
                   THEN ToStringJS(IF Truthy(topic) THEN topic ELSE Str(""))
                   ELSE topic.s
  IN IF coerced # "" THEN coerced ELSE "unknown"

\* topic = String(topic || '') for a non-string topic, then
\* topic && typeof topic === 'string' ? topic.toLowerCase() : 'unknown'
NormalizeTopic(topic) ==
  LET coerced == IF TypeOf(topic) # "string"
                   THEN ToStringJS(IF Truthy(topic) THEN topic ELSE Str(""))
                   ELSE topic.s
  IN IF coerced # "" THEN ToLowerCase(coerced) ELSE "unknown"

\* the path handleWebSocketMessage takes and whether it calls the listeners
HandleWebSocketMessage(message) ==
  LET topic == message.topic
      payload == message.payload
  IN IF topic = NullV \/ topic = Undef
       THEN [path |-> "no-topic", topic |-> "",
             forward |-> Truthy(payload) /\ TypeOf(payload) = "object",
             payload |-> payload]
     ELSE IF NormalizeTopic(topic) \in validTopics
       THEN [path |-> "valid", topic |-> NormalizeTopic(topic),
             forward |-> Truthy(payload),
             payload |-> payload]
     ELSE [path |-> "unknown", topic |-> NormalizeTopic(topic),
           forward |-> Truthy(payload) /\ TypeOf(payload) = "object",
           payload |-> payload]

NotForwarded(why) == [path |-> why, topic |-> "", forward |-> FALSE, payload |-> Undef]

\* the whole onmessage handler, up to the calls of the listeners
OnMessageResult(frame) ==
  IF LogThrows(frame) THEN NotForwarded("caught")
  ELSE IF IsEmptyData(frame) THEN NotForwarded("empty")
  ELSE IF ~JsonParse(frame).ok THEN NotForwarded("parse-error")
  ELSE IF ~IsValidStructure(JsonParse(frame).value) THEN NotForwarded("invalid")
  ELSE HandleWebSocketMessage(SelectEnvelope(JsonParse(frame).value))

(***************************************************************************)
(* State.                                                                  *)
(***************************************************************************)
VARIABLES
  socks,             \* readyState of every WebSocket object: "NONE" (not created yet),
                     \* "CONNECTING", "OPEN", "CLOSING" or "CLOSED"
  websocket,         \* OntimeAPI.websocket: 0 (null) or a socket
  waiter,            \* the hook whose `await connectWebSocket()` is pending on a socket, 0 if none
  wsListeners,       \* OntimeAPI.wsListeners, in insertion order
  reconnectInterval, \* OntimeAPI.reconnectInterval is not null
  reconnectTimers,   \* number of live intervals created by scheduleReconnect
  probeTimers,       \* number of live intervals created by onopen, counted up to MaxSockets
  mounted,           \* per hook instance: "no", "yes", "gone"
  isConnected,       \* per hook instance: useState isConnected
  connectionError,   \* per hook instance: useState connectionError is not null
  unsubscribe,       \* per hook instance: the effect's `unsubscribe` is not null
  runtimeData,       \* per hook instance: useState runtimeData
  queryCache,        \* query cache entry QUERY_KEYS.RUNTIME
  tornDown,          \* disconnectWebSocket ran and connect was not called explicitly since
  rundown,           \* query data of useRundown: the ordered rundown
  eventsWithStatus,  \* the result of the last evaluation of useEventsWithStatus
  dropped,           \* some sendWebSocketMessage call found the channel not open
  card,              \* one EventCard: the custom values of its event prop, its useState
                     \* values and its PATCH requests in flight
  backend,           \* the server: the custom values and the runtime state it holds
  http,              \* the HTTP client: every control request issued, the ones in flight,
                     \* and whether the runtime query is fetching
  editHist,          \* what the user saw when an edit began and what the user typed last
  lastOp,            \* the task that ran last
  lastFrame,         \* the frame handled by the last task, if it was a message event
  delivery,          \* the listener calls made by the last task
  sendCalls,         \* number of sendWebSocketMessage calls made by the last task
  lastSent           \* the frames the last task handed to WebSocket.send

connVars == <<socks, websocket, waiter, reconnectInterval, reconnectTimers, probeTimers, tornDown>>
hookVars == <<mounted, isConnected, connectionError, unsubscribe>>
dataVars == <<runtimeData, queryCache>>
statusVars == <<rundown, eventsWithStatus>>
histVars == <<lastOp, lastFrame, delivery, sendCalls, lastSent>>
appVars == <<card, backend, http, editHist>>
vars == <<connVars, wsListeners, hookVars, dataVars, statusVars, dropped, histVars, appVars>>

NoFrame == [kind |-> "none"]

\* the custom fields of the event shown by the card
FieldIds == {"Image_Test", "Note"}

\* no EventCard is rendered (the rundown is empty or not loaded)
NoCard == [editingField |-> "none"]

\* EventCard at its first render: useState(null) for editingField,
\* useState(event.custom || {}) for fieldValues; no PATCH is in flight
MountCard(custom) ==
  [custom |-> custom, fieldValues |-> custom, editingField |-> "none", patches |-> {}]

NoEditHist == [edited |-> [field |-> "none"]]
NoRequests == [log |-> <<>>, pending |-> {}, fetching |-> FALSE]
NoBackend == [runtime |-> NullV]

\* the state outside the connection manager when no card is rendered and
\* no request has been issued
InitOther ==
  /\ card = NoCard
  /\ backend = NoBackend
  /\ http = NoRequests
  /\ editHist = NoEditHist

NoDelivery == [forwarded |-> FALSE, payload |-> Undef, invoked |-> <<>>]

\* the client after construction, before any consumer mounts
InitIdle ==
  /\ socks = [s \in Sockets |-> "NONE"]
  /\ websocket = 0
  /\ waiter = [s \in Sockets |-> 0]
  /\ wsListeners = <<>>
  /\ reconnectInterval = FALSE
  /\ reconnectTimers = 0
  /\ probeTimers = 0
  /\ mounted = [h \in Hooks |-> "no"]
  /\ isConnected = [h \in Hooks |-> FALSE]
  /\ connectionError = [h \in Hooks |-> FALSE]
  /\ unsubscribe = [h \in Hooks |-> FALSE]
  /\ runtimeData = [h \in Hooks |-> NullV]
  /\ queryCache = Undef
  /\ tornDown = FALSE
  /\ rundown = <<>>
  /\ eventsWithStatus = <<>>
  /\ dropped = FALSE
  /\ lastOp = "init"
  /\ lastFrame = NoFrame
  /\ delivery = NoDelivery
  /\ sendCalls = 0
  /\ lastSent = <<>>

Init == InitIdle /\ InitOther

(***************************************************************************)
(* Helpers of the connection manager.                                      *)
(***************************************************************************)
\* the places a new WebSocket object can take
FreeSockets == {s \in Sockets : socks[s] = "NONE"}

\* get isWebSocketConnected, evaluated on a socket table
IsWebSocketConnected(ws, table) == ws # 0 /\ table[ws] = "OPEN"

\* the guard of sendWebSocketMessage without the readyState test
CanSendAnyState(ws, table) == ws # 0

\* the guard of sendWebSocketMessage
CanSend(ws, table) == ws # 0 /\ table[ws] = "OPEN"

\* sendWebSocketMessage for each topic of `topics`, in order
SendWebSocketMessages(ws, table, topics) ==
  IF CanSend(ws, table)
    THEN [i \in 1..Len(topics) |-> [sock |-> ws, topic |-> topics[i]]]
    ELSE <<>>

OpenRequests == <<"get-runtime", "get-timer", "get-playback", "poll-runtime", "ontime-poll">>
ProbeRequests == <<"get-runtime", "ontime-poll">>

\* Set.add and Set.delete on the insertion-ordered listener set
SetAdd(seq, x) == IF \E i \in 1..Len(seq) : seq[i] = x THEN seq ELSE Append(seq, x)
SetDelete(seq, x) == SelectSeq(seq, LAMBDA y : y # x)
SetClear(seq) == <<>>
SeqRange(seq) == {seq[i] : i \in 1..Len(seq)}

\* scheduleReconnect without its guard
ShouldArmAlways(handle) == TRUE

\* a scheduleReconnect that gives up: no interval is armed
ShouldArmNever(handle) == FALSE

\* the guard of scheduleReconnect: `if (this.reconnectInterval) return`
ShouldArm(handle) == ~handle

NoHistory ==
  /\ lastFrame' = NoFrame
  /\ delivery' = NoDelivery
  /\ sendCalls' = 0
  /\ lastSent' = <<>>

(***************************************************************************)
(* Operations.                                                             *)
(***************************************************************************)
\* connectWebSocket(): a new WebSocket replaces this.websocket, whatever
\* the state of the previous one; the promise is awaited by hook h, or by
\* nobody when h = 0
ConnectWebSocket(h) ==
  /\ FreeSockets # {}
  /\ LET n == CHOOSE s \in FreeSockets : \A t \in FreeSockets : s <= t IN
       /\ socks' = [socks EXCEPT ![n] = "CONNECTING"]
       /\ websocket' = n
       /\ waiter' = [waiter EXCEPT ![n] = h]

\* useWebSocketConnection: the connect effect of a hook instance
Mount(h) ==
  /\ mounted[h] = "no"
  /\ ConnectWebSocket(h)
  /\ mounted' = [mounted EXCEPT ![h] = "yes"]
  /\ tornDown' = FALSE
  /\ lastOp' = "mount"
  /\ NoHistory
  /\ UNCHANGED <<statusVars, appVars, dropped, wsListeners, reconnectInterval, reconnectTimers, probeTimers,
                 isConnected, connectionError, unsubscribe, dataVars>>

\* useWebSocketConnection: the `reconnect` function returned to the consumer
ManualReconnect(h) ==
  /\ mounted[h] = "yes"
  /\ ConnectWebSocket(0)
  /\ tornDown' = FALSE
  /\ lastOp' = "manual-reconnect"
  /\ NoHistory
  /\ UNCHANGED <<statusVars, appVars, dropped, wsListeners, reconnectInterval, reconnectTimers, probeTimers,
                 hookVars, dataVars>>

\* the callback of the interval armed by scheduleReconnect
ReconnectTick ==
  /\ reconnectTimers > 0
  /\ ConnectWebSocket(0)
  /\ lastOp' = "reconnect-tick"
  /\ NoHistory
  /\ UNCHANGED <<statusVars, appVars, dropped, wsListeners, reconnectInterval, reconnectTimers, probeTimers,
                 tornDown, hookVars, dataVars>>

\* the open event of socket s: onopen, then the continuation of the hook
\* that awaits the promise of s
SocketOpen(s) ==
  /\ socks[s] = "CONNECTING"
  /\ socks' = [socks EXCEPT ![s] = "OPEN"]
  /\ sendCalls' = Len(OpenRequests)
  /\ lastSent' = SendWebSocketMessages(websocket, socks', OpenRequests)
  /\ probeTimers' = IF probeTimers < MaxSockets THEN probeTimers + 1 ELSE probeTimers
  /\ waiter' = [waiter EXCEPT ![s] = 0]
  /\ IF waiter[s] # 0
       THEN LET h == waiter[s] IN
              /\ isConnected' = [isConnected EXCEPT ![h] = (mounted[h] = "yes")]
              /\ connectionError' = [connectionError EXCEPT ![h] = FALSE]
              /\ wsListeners' = SetAdd(wsListeners, h)
              /\ unsubscribe' = [unsubscribe EXCEPT ![h] = TRUE]
       ELSE UNCHANGED <<isConnected, connectionError, wsListeners, unsubscribe>>
  /\ lastOp' = "open"
  /\ lastFrame' = NoFrame
  /\ delivery' = NoDelivery
  /\ dropped' = (dropped \/ Len(lastSent') < sendCalls')
  /\ UNCHANGED <<statusVars, appVars, websocket, reconnectInterval, reconnectTimers, tornDown, mounted, dataVars>>

\* onclose: this.websocket = null; this.scheduleReconnect()
OnClose ==
  /\ websocket' = 0
  /\ reconnectInterval' = TRUE
  /\ reconnectTimers' = IF ShouldArm(reconnectInterval) THEN reconnectTimers + 1
                        ELSE reconnectTimers

\* the close event of socket s without an error event: the server or the
\* client closed an established connection
SocketClose(s) ==
  /\ \/ socks[s] = "OPEN"
     \/ socks[s] = "CLOSING" /\ waiter[s] = 0
  /\ socks' = [socks EXCEPT ![s] = "CLOSED"]
  /\ OnClose
  /\ lastOp' = "close"
  /\ NoHistory
  /\ UNCHANGED <<statusVars, appVars, dropped, waiter, wsListeners, probeTimers, tornDown, hookVars, dataVars>>

\* the connection of socket s fails: the error event (onerror rejects the
\* promise, the awaiting hook runs its catch block) and then the close event
SocketFail(s) ==
  /\ socks[s] \in {"CONNECTING", "OPEN", "CLOSING"}
  /\ socks' = [socks EXCEPT ![s] = "CLOSED"]
  /\ waiter' = [waiter EXCEPT ![s] = 0]
  /\ IF waiter[s] # 0
       THEN LET h == waiter[s] IN
              /\ connectionError' = [connectionError EXCEPT ![h] = (mounted[h] = "yes")]
              /\ isConnected' = [isConnected EXCEPT ![h] = FALSE]
       ELSE UNCHANGED <<connectionError, isConnected>>
  /\ OnClose
  /\ lastOp' = "fail"
  /\ NoHistory
  /\ UNCHANGED <<statusVars, appVars, dropped, wsListeners, probeTimers, tornDown, mounted, unsubscribe, dataVars>>

\* a closed WebSocket object receives no further event: it is collected
\* and its place is free for a new object
Release(s) ==
  /\ socks[s] = "CLOSED"
  /\ socks' = [socks EXCEPT ![s] = "NONE"]
  /\ lastOp' = "release"
  /\ NoHistory
  /\ UNCHANGED <<statusVars, appVars, dropped, websocket, waiter, wsListeners, reconnectInterval,
                 reconnectTimers, probeTimers, tornDown, hookVars, dataVars>>

\* the callback of an interval armed by onopen (never cleared)
ProbeTick ==
  /\ probeTimers > 0
  /\ sendCalls' = IF IsWebSocketConnected(websocket, socks) THEN Len(ProbeRequests) ELSE 0
  /\ lastSent' = IF IsWebSocketConnected(websocket, socks)
                   THEN SendWebSocketMessages(websocket, socks, ProbeRequests)
                   ELSE <<>>
  /\ lastOp' = "probe-tick"
  /\ lastFrame' = NoFrame
  /\ delivery' = NoDelivery
  /\ dropped' = (dropped \/ Len(lastSent') < sendCalls')
  /\ UNCHANGED <<statusVars, appVars, connVars, wsListeners, hookVars, dataVars>>

\* disconnectWebSocket(), called with the listener set it finds
DisconnectWebSocket(listeners) ==
  /\ reconnectInterval' = FALSE
  /\ reconnectTimers' = IF reconnectInterval THEN reconnectTimers - 1 ELSE reconnectTimers
  /\ socks' = IF websocket # 0 /\ socks[websocket] \in {"CONNECTING", "OPEN"}
                THEN [socks EXCEPT ![websocket] = "CLOSING"]
                ELSE socks
  /\ websocket' = 0
  /\ wsListeners' = SetClear(listeners)
  /\ tornDown' = TRUE

\* useWebSocketConnection: the cleanup of the connect effect
Unmount(h) ==
  /\ mounted[h] = "yes"
  /\ DisconnectWebSocket(IF unsubscribe[h] THEN SetDelete(wsListeners, h) ELSE wsListeners)
  /\ mounted' = [mounted EXCEPT ![h] = "gone"]
  /\ isConnected' = [isConnected EXCEPT ![h] = FALSE]
  /\ lastOp' = "unmount"
  /\ NoHistory
  /\ UNCHANGED <<statusVars, appVars, dropped, waiter, probeTimers, connectionError, unsubscribe, dataVars>>

\* useWebSocketConnection: the one-second interval that polls isWebSocketConnected
MonitorTick(h) ==
  /\ mounted[h] = "yes"
  /\ isConnected[h] # IsWebSocketConnected(websocket, socks)
  /\ isConnected' = [isConnected EXCEPT ![h] = IsWebSocketConnected(websocket, socks)]
  /\ lastOp' = "monitor-tick"
  /\ NoHistory
  /\ UNCHANGED <<statusVars, appVars, dropped, connVars, wsListeners, mounted, connectionError, unsubscribe, dataVars>>

\* a forEach that stops after the first listener
CallListenersFirstOnly(payload) ==
  /\ runtimeData' = [h \in Hooks |->
       IF wsListeners # <<>> /\ h = Head(wsListeners) /\ mounted[h] = "yes"
         THEN payload ELSE runtimeData[h]]
  /\ queryCache' = IF wsListeners # <<>> THEN payload ELSE queryCache
  /\ delivery' = [forwarded |-> TRUE, payload |-> payload,
                  invoked |-> SubSeq(wsListeners, 1, IF wsListeners = <<>> THEN 0 ELSE 1)]

\* the listener registered by a hook instance: setRuntimeData(data) (ignored
\* by React once the component is unmounted) and setQueryData(RUNTIME, data)
CallListeners(payload) ==
  /\ runtimeData' = [h \in Hooks |->
       IF h \in SeqRange(wsListeners) /\ mounted[h] = "yes" THEN payload ELSE runtimeData[h]]
  /\ queryCache' = IF wsListeners # <<>> THEN payload ELSE queryCache
  /\ delivery' = [forwarded |-> TRUE, payload |-> payload, invoked |-> wsListeners]

\* a message event on socket s carrying frame f
OnMessage(s, f) ==
  /\ socks[s] = "OPEN"
  /\ lastFrame' = f
  /\ LET r == OnMessageResult(f) IN
       IF r.forward
         THEN CallListeners(r.payload)
         ELSE /\ delivery' = NoDelivery
              /\ UNCHANGED dataVars
  /\ lastOp' = "message"
  /\ sendCalls' = 0
  /\ lastSent' = <<>>
  /\ UNCHANGED <<statusVars, appVars, dropped, connVars, wsListeners, hookVars>>

\* the listeners that forEach reaches when the listeners of the hooks in
\* `bad` throw: on the path of a message without topic the callback is called
\* bare and the first exception ends the forEach (it is caught around the
\* loop); on the other two paths each call has its own try/catch
InvokedListeners(path, listeners, bad) ==
  IF path = "no-topic" /\ \E i \in 1..Len(listeners) : listeners[i] \in bad
    THEN SubSeq(listeners, 1,
                CHOOSE i \in 1..Len(listeners) :
                  /\ listeners[i] \in bad
                  /\ \A j \in 1..(i - 1) : listeners[j] \notin bad)
    ELSE listeners

\* the calls of the listeners when those of `bad` throw before they store
\* the payload
CallThrowingListeners(path, payload, bad) ==
  LET invoked == InvokedListeners(path, wsListeners, bad)
      stored == SeqRange(invoked) \ bad
  IN /\ runtimeData' = [h \in Hooks |->
          IF h \in stored /\ mounted[h] = "yes" THEN payload ELSE runtimeData[h]]
     /\ queryCache' = IF stored # {} THEN payload ELSE queryCache
     /\ delivery' = [forwarded |-> TRUE, payload |-> payload, invoked |-> invoked]

\* a message event on socket s carrying a frame that is forwarded, while
\* the listeners of the hooks in `bad` throw
OnMessageThrowing(s, f, bad) ==
  /\ socks[s] = "OPEN"
  /\ bad # {}
  /\ bad \subseteq SeqRange(wsListeners)
  /\ OnMessageResult(f).forward
  /\ lastFrame' = f
  /\ CallThrowingListeners(OnMessageResult(f).path, OnMessageResult(f).payload, bad)
  /\ lastOp' = "message-throw"
  /\ sendCalls' = 0
  /\ lastSent' = <<>>
  /\ UNCHANGED <<statusVars, appVars, dropped, connVars, wsListeners, hookVars>>

Next ==
  \/ \E h \in Hooks : Mount(h)
  \/ \E h \in Hooks : ManualReconnect(h)
  \/ ReconnectTick
  \/ \E s \in Sockets : SocketOpen(s)
  \/ \E s \in Sockets : SocketClose(s)
  \/ \E s \in Sockets : SocketFail(s)
  \/ ProbeTick
  \/ \E h \in Hooks : Unmount(h)
  \/ \E h \in Hooks : MonitorTick(h)
  \/ \E s \in Sockets, f \in Frames : OnMessage(s, f)

Spec == Init /\ [][Next]_vars

(***************************************************************************)
(* The connection life cycle with a single consumer that never calls the   *)
(* manual reconnect: every connection but the first is made by the         *)
(* reconnection timer.                                                     *)
(***************************************************************************)
NextSingle ==
  \/ Mount(1)
  \/ ReconnectTick
  \/ \E s \in Sockets : SocketOpen(s)
  \/ \E s \in Sockets : SocketClose(s)
  \/ \E s \in Sockets : SocketFail(s)
  \/ ProbeTick
  \/ Unmount(1)
  \/ MonitorTick(1)
  \/ \E s \in Sockets, f \in Frames : OnMessage(s, f)

SpecSingle == Init /\ [][NextSingle]_vars

(***************************************************************************)
(* Reconnection over time: a single consumer, and the timer of             *)
(* scheduleReconnect is fair (an interval that is armed keeps firing), a   *)
(* connection attempt the server does not refuse completes, and a closed   *)
(* WebSocket object is collected.                                          *)
(***************************************************************************)
NextReconnect ==
  \/ Mount(1)
  \/ ReconnectTick
  \/ \E s \in Sockets : SocketOpen(s)
  \/ \E s \in Sockets : SocketClose(s)
  \/ \E s \in Sockets : SocketFail(s)
  \/ \E s \in Sockets : Release(s)
  \/ Unmount(1)

SpecReconnect ==
  /\ Init
  /\ [][NextReconnect]_vars
  /\ WF_vars(ReconnectTick)
  /\ \A s \in Sockets : WF_vars(SocketOpen(s)) /\ WF_vars(Release(s))

(***************************************************************************)
(* The message handler over every frame shape.  The server keeps its       *)
(* connections open and no consumer unmounts in these runs: hooks mount,   *)
(* their sockets open, frames of every shape arrive.                       *)
(***************************************************************************)
NextNormalizer ==
  \/ \E h \in Hooks : Mount(h)
  \/ \E s \in Sockets : SocketOpen(s)
  \/ \E s \in Sockets, f \in AllFrames : OnMessage(s, f)

SpecNormalizer == Init /\ [][NextNormalizer]_vars

(***************************************************************************)
(* Subscription and notification: consumers mount and unmount, their       *)
(* sockets open and are closed, frames arrive.  The server refuses no      *)
(* connection and the reconnection timer does not tick in these runs.     *)
(***************************************************************************)
NextNotify ==
  \/ \E h \in Hooks : Mount(h)
  \/ \E s \in Sockets : SocketOpen(s)
  \/ \E s \in Sockets : SocketClose(s)
  \/ \E h \in Hooks : Unmount(h)
  \/ \E s \in Sockets, f \in Frames : OnMessage(s, f)

SpecNotify == Init /\ [][NextNotify]_vars

(***************************************************************************)
(* Subscribers that throw: consumers mount, their sockets open, and one    *)
(* frame for each delivery path of handleWebSocketMessage arrives while    *)
(* some of the listeners throw.                                            *)
(***************************************************************************)
PathFrames ==
  { Json([t |-> "object", topic |-> Str("timer"), payload |-> TimerOnly]),
    Json([t |-> "object", topic |-> Str("new-topic"), payload |-> TimerOnly2]),
    Json([t |-> "object", topic |-> NullV, payload |-> PlaybackOnly2]) }

NextThrow ==
  \/ \E h \in Hooks : Mount(h)
  \/ \E s \in Sockets : SocketOpen(s)
  \/ \E s \in Sockets, f \in PathFrames : OnMessage(s, f)
  \/ \E s \in Sockets, f \in PathFrames, bad \in SUBSET Hooks : OnMessageThrowing(s, f, bad)

SpecThrow == Init /\ [][NextThrow]_vars

(***************************************************************************)
(* The message handler over every envelope: object frames built from each  *)
(* combination of a topic, a type, a data and a payload field, each field  *)
(* absent or holding a value of each kind.  One consumer, its socket open. *)
(***************************************************************************)
Absent == [t |-> "absent"]

EnvelopeTopics ==
  { Absent, NullV, Str("timer"), Str("TIMER"), Str("new-topic"),
    Num(0), Num(5), Bool(TRUE), [t |-> "object"], ArrayOf(Str("TIMER")) }
EnvelopeTypes == { Absent, Str("timer") }
EnvelopeDatas == { Absent, NullV, Num(5), TimerOnly }
EnvelopePayloads == { Absent, Str("x"), TimerOnly2 }

\* the object with the fields that are not absent
EnvelopeObject(topic, type, data, payload) ==
  LET fields == [topic |-> topic, type |-> type, data |-> data, payload |-> payload]
      keys == {k \in DOMAIN fields : fields[k] # Absent}
  IN [k \in keys \cup {"t"} |-> IF k = "t" THEN "object" ELSE fields[k]]

EnvelopeFrames ==
  { Json(EnvelopeObject(topic, type, data, payload)) :
      topic \in EnvelopeTopics, type \in EnvelopeTypes,
      data \in EnvelopeDatas, payload \in EnvelopePayloads }

NextEnvelope ==
  \/ Mount(1)
  \/ \E s \in Sockets : SocketOpen(s)
  \/ \E s \in Sockets, f \in EnvelopeFrames : OnMessage(s, f)

SpecEnvelope == Init /\ [][NextEnvelope]_vars

(***************************************************************************)
(* Event Status Deriver: useEventsWithStatus.                              *)
(***************************************************************************)
EventIds == {"421b5a", "21313f", "146dc4"}

\* OntimeEvent, reduced to the fields the derivation reads
Events == [id : EventIds, skip : BOOLEAN, duration : {Undef, Num(600)}]

Rundowns == UNION {[1..n -> Events] : n \in 0..MaxEvents}

\* the snapshots the derivation is applied to
StatusSnapshots ==
  {NullV} \cup
  { [t |-> "object", playback |-> Playback(st, sel), timer |-> Timer(cur)] :
      st \in {"start", "pause"},
      sel \in {Str(id) : id \in EventIds} \cup {NullV, Str("ffffff")},
      cur \in {30000} } \cup
  { [t |-> "object", playback |-> Playback("start", Str(id))] : id \in EventIds } \cup
  { [t |-> "object", timer |-> Timer(30000)] }

\* FindIndex returning the last position that holds the id
FindIndexLast(rd, currentEventId) ==
  IF \E i \in 1..Len(rd) : Str(rd[i].id) = currentEventId
    THEN (CHOOSE i \in 1..Len(rd) :
            /\ Str(rd[i].id) = currentEventId
            /\ \A j \in (i + 1)..Len(rd) : Str(rd[j].id) # currentEventId) - 1
    ELSE -1

\* rundown.findIndex(e => e.id === currentEventId), 0-based, -1 when absent
FindIndex(rd, currentEventId) ==
  IF \E i \in 1..Len(rd) : Str(rd[i].id) = currentEventId
    THEN (CHOOSE i \in 1..Len(rd) :
            /\ Str(rd[i].id) = currentEventId
            /\ \A j \in 1..(i - 1) : Str(rd[j].id) # currentEventId) - 1
    ELSE -1

\* EventStatus with the comparison of the positions reversed
EventStatusCompletedAfter(rd, event, index, currentEventId) ==
  IF event.skip THEN "skipped"
  ELSE IF currentEventId = Str(event.id) THEN "active"
  ELSE IF FindIndex(rd, currentEventId) # -1 /\ index > FindIndex(rd, currentEventId)
    THEN "completed"
  ELSE "upcoming"

\* EventStatus with the selected event tested before the skip flag
EventStatusActiveFirst(rd, event, index, currentEventId) ==
  IF currentEventId = Str(event.id) THEN "active"
  ELSE IF event.skip THEN "skipped"
  ELSE IF FindIndex(rd, currentEventId) # -1 /\ index < FindIndex(rd, currentEventId)
    THEN "completed"
  ELSE "upcoming"

\* the status of the event at 0-based position index
EventStatus(rd, event, index, currentEventId) ==
  IF event.skip THEN "skipped"
  ELSE IF currentEventId = Str(event.id) THEN "active"
  ELSE IF FindIndex(rd, currentEventId) # -1 /\ index < FindIndex(rd, currentEventId)
    THEN "completed"
  ELSE "upcoming"

\* ToNumber, as applied by the binary minus to a number or to null
ToNumber(v) == IF v.t = "number" THEN v.n ELSE 0

\* TimeRemaining without the conversion of the duration to milliseconds
TimeRemainingSeconds(duration, currentTime) ==
  IF currentTime # Undef /\ Truthy(duration)
    THEN Num(duration.n - ToNumber(currentTime))
    ELSE Undef

\* if (currentTime !== undefined && event.duration)
\*   timeRemaining = event.duration * 1000 - currentTime
TimeRemaining(duration, currentTime) ==
  IF currentTime # Undef /\ Truthy(duration)
    THEN Num(duration.n * 1000 - ToNumber(currentTime))
    ELSE Undef

\* the body of the callback of useEventsWithStatus
UseEventsWithStatus(rd, data) ==
  LET currentEventId == Get(Get(data, "playback"), "selectedEventId")
      currentTime == Get(Get(data, "timer"), "current")
  IN [i \in 1..Len(rd) |->
       LET event == rd[i]
           status == EventStatus(rd, event, i - 1, currentEventId)
       IN [id |-> event.id,
           skip |-> event.skip,
           duration |-> event.duration,
           status |-> status,
           isRunning |-> status = "active"
                         /\ Get(Get(data, "playback"), "state") = Str("start"),
           timeRemaining |->
             IF status = "active" THEN TimeRemaining(event.duration, currentTime)
             ELSE Undef]]

\* the rundown query has resolved with one of `rundowns` and hook instance
\* 1, the instance inside useEventsWithStatus, holds one of `snapshots`
InitDeriver(snapshots, rundowns) ==
  /\ socks = [s \in Sockets |-> "NONE"]
  /\ websocket = 0
  /\ waiter = [s \in Sockets |-> 0]
  /\ wsListeners = <<>>
  /\ reconnectInterval = FALSE
  /\ reconnectTimers = 0
  /\ probeTimers = 0
  /\ mounted = [h \in Hooks |-> "no"]
  /\ isConnected = [h \in Hooks |-> FALSE]
  /\ connectionError = [h \in Hooks |-> FALSE]
  /\ unsubscribe = [h \in Hooks |-> FALSE]
  /\ runtimeData \in {[h \in Hooks |-> IF h = 1 THEN d ELSE NullV] : d \in snapshots}
  /\ queryCache = Undef
  /\ tornDown = FALSE
  /\ rundown \in rundowns
  /\ eventsWithStatus = <<>>
  /\ dropped = FALSE
  /\ lastOp = "init"
  /\ lastFrame = NoFrame
  /\ delivery = NoDelivery
  /\ sendCalls = 0
  /\ lastSent = <<>>
  /\ InitOther

InitStatus == InitDeriver(StatusSnapshots, Rundowns)

\* a render evaluates the derivation on the current rundown and snapshot
Render ==
  /\ lastOp = "init"
  /\ eventsWithStatus' = UseEventsWithStatus(rundown, runtimeData[1])
  /\ lastOp' = "render"
  /\ UNCHANGED <<connVars, wsListeners, hookVars, dataVars, rundown, dropped,
                 lastFrame, delivery, sendCalls, lastSent, appVars>>

\* a message moves the selection of the snapshot to event id and leaves
\* the rest of the snapshot alone; the component renders again
SelectEvent(id) ==
  /\ lastOp \in {"render", "select"}
  /\ Get(runtimeData[1], "playback") # Undef
  /\ Get(Get(runtimeData[1], "playback"), "selectedEventId") # Str(id)
  /\ runtimeData' = [runtimeData EXCEPT ![1] =
       [runtimeData[1] EXCEPT !.playback =
          [runtimeData[1].playback EXCEPT !.selectedEventId = Str(id)]]]
  /\ eventsWithStatus' = UseEventsWithStatus(rundown, runtimeData'[1])
  /\ lastOp' = "select"
  /\ UNCHANGED <<connVars, wsListeners, hookVars, queryCache, rundown, dropped,
                 lastFrame, delivery, sendCalls, lastSent, appVars>>

NextStatus ==
  \/ Render
  \/ \E id \in EventIds : SelectEvent(id)

SpecStatus == InitStatus /\ [][NextStatus]_vars

(***************************************************************************)
(* The derivation of timeRemaining over the durations and timer values an  *)
(* event and a snapshot can carry.                                         *)
(***************************************************************************)
TimedEvents == [id : EventIds, skip : {FALSE}, duration : {Undef, Num(0), Num(600)}]

TimedRundowns == UNION {[1..n -> TimedEvents] : n \in 0..MaxEvents}

\* the timer slice: absent, without `current`, with a null `current` (no
\* timer running) or with a number of milliseconds
TimerSlices ==
  { Undef, [t |-> "object"], [t |-> "object", current |-> NullV],
    Timer(0), Timer(30000), Timer(700000) }

TimeSnapshots ==
  { IF tm = Undef
      THEN [t |-> "object", playback |-> Playback(st, Str(id))]
      ELSE [t |-> "object", playback |-> Playback(st, Str(id)), timer |-> tm] :
      st \in {"start", "pause"}, id \in EventIds, tm \in TimerSlices }

InitTime == InitDeriver(TimeSnapshots, TimedRundowns)

NextTime == Render

SpecTime == InitTime /\ [][NextTime]_vars

(***************************************************************************)
(* Custom-field editing in EventCard.  The card shows one event with two   *)
(* custom fields; the server holds the authoritative custom values, the    *)
(* card receives them as its `event` prop when the rundown query refetches.*)
(***************************************************************************)
\* number of PATCH requests of the card that can be in flight together
MaxPatches == 1

\* the texts the user types
Texts == {"", "b"}

\* editHist.preEdit: what the field being edited showed when its edit began
\* editHist.edited: the field and the text of the last change the user
\* typed, until a request of the field fails, the edit is cancelled or the
\* rundown is refetched
NoEdit == [field |-> "none"]

\* the custom values the server holds when the card mounts
InitialCustoms ==
  { [f \in FieldIds |-> IF f = "Image_Test" THEN v ELSE Undef] : v \in {Undef, Str("a")} }

\* x || y
OrElse(x, y) == IF Truthy(x) THEN x ELSE y

\* const currentValue = fieldValues[field.id] || event.custom?.[field.id] || ''
CurrentValue(c, f) == OrElse(OrElse(c.fieldValues[f], c.custom[f]), Str(""))

\* what the card shows for field f: the input (value={fieldValues[field.id] || ''})
\* while the field is being edited, currentValue otherwise
Displayed(c, f) ==
  IF c.editingField = f THEN OrElse(c.fieldValues[f], Str("")) ELSE CurrentValue(c, f)

InitEdit ==
  /\ InitIdle
  /\ \E custom \in InitialCustoms :
       /\ card = MountCard(custom)
       /\ backend = [custom |-> custom, runtime |-> NullV]
  /\ http = NoRequests
  /\ editHist = [preEdit |-> Undef, edited |-> NoEdit]

EditUnchanged ==
  /\ NoHistory
  /\ UNCHANGED <<connVars, wsListeners, hookVars, dataVars, statusVars, dropped, http>>

\* the edit button of field f: setEditingField(f), fieldValues[f] = currentValue
StartEdit(f) ==
  /\ card.editingField # f
  /\ card' = [card EXCEPT !.editingField = f, !.fieldValues[f] = CurrentValue(card, f)]
  /\ editHist' = [editHist EXCEPT !.preEdit = Displayed(card, f)]
  /\ lastOp' = "start-edit"
  /\ UNCHANGED backend
  /\ EditUnchanged

\* onChange of the input of the field being edited
Change(f, v) ==
  /\ card.editingField = f
  /\ card.fieldValues[f] # Str(v)
  /\ card' = [card EXCEPT !.fieldValues[f] = Str(v)]
  /\ editHist' = [editHist EXCEPT !.edited = [field |-> f, value |-> Str(v)]]
  /\ lastOp' = "change"
  /\ UNCHANGED backend
  /\ EditUnchanged

\* Enter or the save button: handleFieldSave(f, fieldValues[f] || '') up
\* to its await.  The handler keeps the `event` of the render it was
\* created in: `original` is what its catch block will read from it.
\* `before` records what the field showed when the edit began.
Save(f) ==
  /\ card.editingField = f
  /\ Cardinality(card.patches) < MaxPatches
  /\ card' = [card EXCEPT !.patches = @ \cup
       { [field |-> f,
          value |-> OrElse(card.fieldValues[f], Str("")),
          original |-> OrElse(card.custom[f], Str("")),
          before |-> editHist.preEdit] }]
  /\ lastOp' = "save"
  /\ UNCHANGED <<backend, editHist>>
  /\ EditUnchanged

\* the PATCH of p resolves: the server stored the value, onSuccess
\* invalidates the rundown query, handleFieldSave calls setEditingField(null)
PatchSuccess(p) ==
  /\ p \in card.patches
  /\ backend' = [backend EXCEPT !.custom[p.field] = p.value]
  /\ card' = [card EXCEPT !.patches = @ \ {p}, !.editingField = "none"]
  /\ UNCHANGED editHist
  /\ lastOp' = "patch-ok"
  /\ EditUnchanged

\* the PATCH of p rejects: mutateAsync throws into the catch block of
\* handleFieldSave, which logs the error and resets the field
PatchFail(p) ==
  /\ p \in card.patches
  /\ card' = [card EXCEPT !.patches = @ \ {p}, !.fieldValues[p.field] = p.original]
  /\ editHist' = [editHist EXCEPT !.edited = IF @.field = p.field THEN NoEdit ELSE @]
  /\ lastOp' = "patch-fail"
  /\ UNCHANGED backend
  /\ EditUnchanged

\* Escape or the cancel button: handleFieldCancel
HandleFieldCancel(f) ==
  /\ card.editingField = f
  /\ card' = [card EXCEPT !.fieldValues[f] = OrElse(card.custom[f], Str("")),
                          !.editingField = "none"]
  /\ editHist' = [editHist EXCEPT !.edited = IF @.field = f THEN NoEdit ELSE @]
  /\ lastOp' = "cancel"
  /\ UNCHANGED backend
  /\ EditUnchanged

\* the rundown query refetches: the card renders with the event the
\* server holds now
RefetchRundown ==
  /\ card.custom # backend.custom
  /\ card' = [card EXCEPT !.custom = backend.custom]
  /\ editHist' = [editHist EXCEPT !.edited = NoEdit]
  /\ lastOp' = "refetch"
  /\ UNCHANGED backend
  /\ EditUnchanged

NextEdit ==
  \/ \E f \in FieldIds : StartEdit(f)
  \/ \E f \in FieldIds, v \in Texts : Change(f, v)
  \/ \E f \in FieldIds : Save(f)
  \/ \E p \in card.patches : PatchSuccess(p)
  \/ \E p \in card.patches : PatchFail(p)
  \/ \E f \in FieldIds : HandleFieldCancel(f)
  \/ RefetchRundown

SpecEdit == InitEdit /\ [][NextEdit]_vars

(***************************************************************************)
(* Control operations: useStartEvent, usePlaybackActions, useTimeControl   *)
(* over sendPlaybackCommand, addTime and removeTime.                       *)
(***************************************************************************)
\* number of control requests issued in one run
MaxRequests == 2

EmptyObject == [t |-> "object"]

\* this.httpClient.post(path, body); the path is kept as its segments
HttpPost(path, body) == [method |-> "POST", path |-> path, body |-> body]

\* sendPlaybackCommand: post(`/playback/${command}`, payload || {})
SendPlaybackCommand(command, payload) ==
  HttpPost(<<"playback", command>>, OrElse(payload, EmptyObject))

\* the calls a consumer can make: the operation and its argument
ControlCalls ==
  { [op |-> o, arg |-> Undef] :
      o \in {"start", "start-next", "start-previous", "pause", "stop", "reload"} } \cup
  { [op |-> "start-by-id", arg |-> Str("421b5a")],
    [op |-> "start-by-index", arg |-> Num(1)],
    [op |-> "start-by-cue", arg |-> Str("A1")] } \cup
  { [op |-> o, arg |-> Num(n)] : o \in {"add-time", "remove-time"}, n \in {10, 60} }

\* the request each operation hands to the HTTP client
ControlRequest(call) ==
  CASE call.op = "start-by-id" ->
         SendPlaybackCommand("start", [t |-> "object", eventId |-> call.arg])
    [] call.op = "start-by-index" ->
         SendPlaybackCommand("start", [t |-> "object", eventIndex |-> call.arg])
    [] call.op = "start-by-cue" ->
         SendPlaybackCommand("start", [t |-> "object", eventCue |-> call.arg])
    [] call.op = "add-time" ->
         HttpPost(<<"playback", "addtime">>, [t |-> "object", seconds |-> call.arg])
    [] call.op = "remove-time" ->
         HttpPost(<<"playback", "removetime">>, [t |-> "object", seconds |-> call.arg])
    [] OTHER -> SendPlaybackCommand(call.op, Undef)

\* a mutation that retries like the queries of the client do (retry: 3)
RetryMutationThrice(failureCount) == failureCount < 3

\* useMutation is given no `retry` option and the QueryClient sets none
\* for mutations: a failed mutation is not run again
RetryMutation(failureCount) == FALSE

\* getRuntimeData(): throws before any request is made
GetRuntimeData == [ok |-> FALSE, requests |-> <<>>, data |-> Undef]

\* queryClient.invalidateQueries({ queryKey: RUNTIME }): the query function
\* of the runtime query, if the query is observed, is getRuntimeData
InvalidateRuntime ==
  /\ queryCache' = IF GetRuntimeData.ok THEN GetRuntimeData.data ELSE queryCache
  /\ UNCHANGED runtimeData

ControlUnchanged ==
  /\ NoHistory
  /\ UNCHANGED <<connVars, wsListeners, hookVars, statusVars, dropped, card, backend, editHist>>

\* a consumer calls a control operation: mutate() runs the mutation
\* function, which posts one request
Control(call) ==
  /\ Len(http.log) < MaxRequests
  /\ http' = [http EXCEPT
                !.log = Append(@, [call |-> call, request |-> ControlRequest(call),
                                   failureCount |-> 0]),
                !.pending = @ \cup {Len(http.log) + 1}]
  /\ lastOp' = "control"
  /\ UNCHANGED dataVars
  /\ ControlUnchanged

\* the response of request i arrives: onSuccess invalidates the runtime query
ControlSuccess(i) ==
  /\ i \in http.pending
  /\ http' = [http EXCEPT !.pending = @ \ {i}]
  /\ InvalidateRuntime
  /\ lastOp' = "control-ok"
  /\ ControlUnchanged

\* request i fails: the promise of the mutation function rejects
ControlFail(i) ==
  /\ i \in http.pending
  /\ http' = IF RetryMutation(http.log[i].failureCount) /\ Len(http.log) < MaxRequests
               THEN [http EXCEPT
                       !.log = Append(@, [http.log[i] EXCEPT !.failureCount = @ + 1]),
                       !.pending = (@ \ {i}) \cup {Len(http.log) + 1}]
               ELSE [http EXCEPT !.pending = @ \ {i}]
  /\ lastOp' = "control-fail"
  /\ UNCHANGED dataVars
  /\ ControlUnchanged

\* the consumer holds no snapshot yet, or a full one
InitControl == InitDeriver({NullV, FullSnapshot}, {<<>>})

NextControl ==
  \/ \E call \in ControlCalls : Control(call)
  \/ \E i \in 1..MaxRequests : ControlSuccess(i)
  \/ \E i \in 1..MaxRequests : ControlFail(i)

SpecControl == InitControl /\ [][NextControl]_vars

(***************************************************************************)
(* The periodic fetch of the runtime endpoint: useRuntimeData over         *)
(* getRuntimeData, with the streaming channel down.                        *)
(***************************************************************************)
\* the runtime states the server goes through
ServerStates ==
  { FullSnapshot, [FullSnapshot EXCEPT !.timer = Timer(0)] }

\* the state of the server changes (an operator acts on it elsewhere)
ServerChange(v) ==
  /\ backend.runtime # v
  /\ backend' = [backend EXCEPT !.runtime = v]
  /\ lastOp' = "server-change"
  /\ NoHistory
  /\ UNCHANGED <<connVars, wsListeners, hookVars, dataVars, statusVars, dropped,
                 card, http, editHist>>

\* refetchInterval: 1000 elapses: the runtime query starts fetching
PollRuntime ==
  /\ ~http.fetching
  /\ http' = [http EXCEPT !.fetching = TRUE]
  /\ lastOp' = "poll"
  /\ NoHistory
  /\ UNCHANGED <<connVars, wsListeners, hookVars, dataVars, statusVars, dropped,
                 card, backend, editHist>>

\* the fetch settles: the query function getRuntimeData has run (and run
\* again, retry: 3); it makes no request, and a query whose function
\* throws keeps its data
PollSettle ==
  /\ http.fetching
  /\ http' = [http EXCEPT !.fetching = FALSE, !.log = @ \o GetRuntimeData.requests]
  /\ queryCache' = IF GetRuntimeData.ok THEN backend.runtime ELSE queryCache
  /\ lastOp' = "poll-settle"
  /\ NoHistory
  /\ UNCHANGED <<connVars, wsListeners, hookVars, runtimeData, statusVars, dropped,
                 card, backend, editHist>>

NextFallback ==
  \/ NextControl
  \/ \E v \in ServerStates : ServerChange(v)
  \/ PollRuntime
  \/ PollSettle

\* no socket is ever created: the streaming channel is down throughout;
\* the interval of the query keeps firing
SpecFallback ==
  InitControl /\ [][NextFallback]_vars /\ WF_vars(PollRuntime) /\ WF_vars(PollSettle)

(***************************************************************************)
(* The ordered rundown: getOrderedRundown over the response of             *)
(* GET /data/rundown/normalised.                                           *)
(***************************************************************************)
\* the entry of the rundown map for event id
EventEntry(id) == [id |-> id, skip |-> FALSE, duration |-> Undef]

\* the responses of the server: a map with an entry for some of the event
\* ids and an order list of event ids, of any content
NormalizedResponses ==
  { [rundown |-> [id \in ids |-> EventEntry(id)], order |-> order] :
      ids \in SUBSET EventIds,
      order \in UNION {[1..n -> EventIds] : n \in 0..MaxEvents} }

\* normalized.order.map(id => normalized.rundown[id]).filter(Boolean)
GetOrderedRundown(normalized) ==
  LET present(id) == id \in DOMAIN normalized.rundown
      kept == SelectSeq(normalized.order, present)
  IN [i \in 1..Len(kept) |-> normalized.rundown[kept[i]]]

InitRundown ==
  /\ InitIdle
  /\ card = NoCard
  /\ \E normalized \in NormalizedResponses :
       backend = [runtime |-> NullV, normalized |-> normalized]
  /\ http = NoRequests
  /\ editHist = NoEditHist

\* the query function of useRundown has run: the rundown the components
\* get is the ordered rundown of the response
FetchRundown ==
  /\ rundown' = GetOrderedRundown(backend.normalized)
  /\ lastOp' = "fetch-rundown"
  /\ NoHistory
  /\ UNCHANGED <<connVars, wsListeners, hookVars, dataVars, eventsWithStatus, dropped, appVars>>

\* the components render the rundown they got
RenderRundown ==
  /\ lastOp = "fetch-rundown"
  /\ eventsWithStatus' = UseEventsWithStatus(rundown, runtimeData[1])
  /\ lastOp' = "render"
  /\ NoHistory
  /\ UNCHANGED <<connVars, wsListeners, hookVars, dataVars, rundown, dropped, appVars>>

NextRundown == FetchRundown \/ RenderRundown

SpecRundown == InitRundown /\ [][NextRundown]_vars

(***************************************************************************)
(* Properties.                                                             *)
(***************************************************************************)
IsOpenChannel == websocket # 0 /\ socks[websocket] = "OPEN"
LiveSockets == {s \in Sockets : socks[s] \in {"CONNECTING", "OPEN"}}
ClosedSockets == {s \in Sockets : socks[s] = "CLOSED"}
IsObjectFrame(f) == f.kind = "json" /\ Truthy(f.value) /\ TypeOf(f.value) = "object"

\* C1: slice independence of merge.  After a forwarded message whose payload
\* is an object, the snapshot of every subscribed consumer equals its previous
\* snapshot with exactly the slices present in the payload replaced.
SliceIndependence ==
  [][\A h \in Hooks :
       ( /\ delivery'.forwarded
         /\ delivery'.payload.t = "object"
         /\ h \in SeqRange(delivery'.invoked)
         /\ mounted[h] = "yes" )
       => \A k \in Slices :
            Get(runtimeData'[h], k) =
              IF k \in DOMAIN delivery'.payload
                THEN delivery'.payload[k]
                ELSE Get(runtimeData[h], k)]_vars

\* C2: a frame that is empty, not decodable or not an object leaves the
\* handler through one of its early returns (or its catch block), no
\* subscriber is invoked and no snapshot changes.
MalformedFrameIgnored ==
  [][lastFrame' \in MalformedFrames =>
       /\ OnMessageResult(lastFrame').path \in {"caught", "empty", "parse-error", "invalid"}
       /\ delivery' = NoDelivery
       /\ runtimeData' = runtimeData
       /\ queryCache' = queryCache]_vars

\* a malformed frame arrived while a subscriber held a snapshot
MalformedFrameIgnoredWitness ==
  /\ lastFrame \in MalformedFrames
  /\ lastFrame.kind = "json"
  /\ wsListeners # <<>>
  /\ \E h \in SeqRange(wsListeners) : mounted[h] = "yes" /\ runtimeData[h] # NullV

\* C3: every frame that decodes to an object is delivered to every
\* registered subscriber, whatever its envelope.
ObjectFrameReachesStore ==
  (IsObjectFrame(lastFrame) /\ wsListeners # <<>>)
    => (delivery.forwarded /\ delivery.invoked = wsListeners)

\* C4: at most one reconnection timer is armed, the handle is set exactly
\* when one is armed, and after every close event exactly one is armed.
AtMostOneReconnectTimer ==
  /\ reconnectTimers <= 1
  /\ reconnectInterval <=> (reconnectTimers = 1)
  /\ lastOp \in {"close", "fail"} => reconnectTimers = 1

\* a second channel closed while the timer armed by the first close was
\* still armed (no teardown in between)
AtMostOneReconnectTimerWitness ==
  /\ lastOp \in {"close", "fail"}
  /\ Cardinality(ClosedSockets) >= 2
  /\ \A h \in Hooks : mounted[h] # "gone"
  /\ reconnectTimers = 1

\* C5: when the channel opens, the reconnection timer is disarmed.
OpenDisarmsReconnect ==
  lastOp = "open" => (~reconnectInterval /\ reconnectTimers = 0)

\* C6: at most one streaming connection is connecting or open.
SingleConnection == Cardinality(LiveSockets) <= 1

\* C7: after disconnect() and until connect() is called explicitly again,
\* no reconnection timer is armed and no reconnection attempt is made.
NoReconnectAfterDisconnect ==
  tornDown => (reconnectTimers = 0 /\ ~reconnectInterval /\ lastOp # "reconnect-tick")

\* C8: after teardown every timer of the client is cleared, the channel is
\* closed, and no later task sends a frame or changes a snapshot.
TeardownComplete ==
  /\ [](tornDown => (probeTimers = 0 /\ reconnectTimers = 0 /\ LiveSockets = {} /\ lastSent = <<>>))
  /\ [][(tornDown /\ tornDown') => (runtimeData' = runtimeData /\ queryCache' = queryCache)]_vars

\* C9: the frames a task transmits are exactly the frames of its own send
\* calls when the client's channel is open, and none otherwise; every
\* transmitted frame goes out on the client's open channel, so a call that
\* found the channel not open leaves nothing behind to be sent later.
SendOnlyWhenConnected ==
  /\ IsOpenChannel => Len(lastSent) = sendCalls
  /\ ~IsOpenChannel => lastSent = <<>>
  /\ \A i \in 1..Len(lastSent) :
       lastSent[i].sock = websocket /\ socks[lastSent[i].sock] = "OPEN"

\* after some send calls were dropped on a channel that was not open, a
\* later open event transmitted its own five requests and nothing more
SendOnlyWhenConnectedWitness ==
  /\ dropped
  /\ lastOp = "open"
  /\ sendCalls = Len(OpenRequests)
  /\ Len(lastSent) = Len(OpenRequests)

\* C10: skip flag dominance.  In every derivation an event is `skipped`
\* exactly when its skip flag is set.
SkipFlagDominance ==
  lastOp = "render" =>
    /\ Len(eventsWithStatus) = Len(rundown)
    /\ \A i \in 1..Len(rundown) :
         rundown[i].skip <=> (eventsWithStatus[i].status = "skipped")

\* a derivation in which the selected event is flagged skip and is
\* preceded by an event that is not
SkipFlagDominanceWitness ==
  /\ lastOp = "render"
  /\ \E i \in 2..Len(rundown) :
       /\ rundown[i].skip
       /\ Get(Get(runtimeData[1], "playback"), "selectedEventId") = Str(rundown[i].id)
       /\ eventsWithStatus[i].status = "skipped"
       /\ ~rundown[i - 1].skip

(***************************************************************************)
(* Properties of the status derivation.                                    *)
(***************************************************************************)
SelectedId == Get(Get(runtimeData[1], "playback"), "selectedEventId")
CurrentTime == Get(Get(runtimeData[1], "timer"), "current")
PositionsOf(id) == {i \in 1..Len(rundown) : Str(rundown[i].id) = id}
ActivePositions == {i \in 1..Len(eventsWithStatus) : eventsWithStatus[i].status = "active"}
CompletedPositions == {i \in 1..Len(eventsWithStatus) : eventsWithStatus[i].status = "completed"}
Derived == lastOp \in {"render", "select"}

\* C11 as stated: after the selection alone has changed to a different id
\* that is present in the rundown, exactly one event is active, it is the
\* event with the new id, and the completed events are the events without
\* skip flag before its position.
SelectionMovesActive ==
  (lastOp = "select" /\ PositionsOf(SelectedId) # {}) =>
    \E p \in 1..Len(rundown) :
      /\ ActivePositions = {p}
      /\ Str(rundown[p].id) = SelectedId
      /\ CompletedPositions = {i \in 1..(p - 1) : ~rundown[i].skip}

\* C11, amended: the same, when the new id is the id of exactly one event
\* of the rundown and that event is not flagged skip.
SelectionMovesActiveUnskipped ==
  ( /\ lastOp = "select"
    /\ Cardinality(PositionsOf(SelectedId)) = 1
    /\ \A p \in PositionsOf(SelectedId) : ~rundown[p].skip ) =>
    \E p \in 1..Len(rundown) :
      /\ ActivePositions = {p}
      /\ Str(rundown[p].id) = SelectedId
      /\ CompletedPositions = {i \in 1..(p - 1) : ~rundown[i].skip}

\* the selection moved to the last event of a rundown of three, which is
\* active behind a completed event
SelectionMovesActiveWitness ==
  /\ lastOp = "select"
  /\ Len(rundown) = 3
  /\ Cardinality(PositionsOf(SelectedId)) = 1
  /\ ActivePositions = {3}
  /\ CompletedPositions # {}

\* the state of the end-to-end scenario of the derivation
ScenarioState ==
  /\ Len(rundown) = 3
  /\ rundown[1].id = "421b5a" /\ rundown[2].id = "21313f" /\ rundown[3].id = "146dc4"
  /\ \A i \in 1..3 : ~rundown[i].skip
  /\ rundown[2].duration = Num(600)
  /\ SelectedId = Str("21313f")
  /\ Get(Get(runtimeData[1], "playback"), "state") = Str("start")
  /\ CurrentTime = Num(30000)

ScenarioResult ==
  /\ eventsWithStatus[1].status = "completed"
  /\ eventsWithStatus[2].status = "active"
  /\ eventsWithStatus[2].isRunning
  /\ eventsWithStatus[2].timeRemaining = Num(570000)
  /\ eventsWithStatus[3].status = "upcoming"

\* C12 as stated: for an active event timeRemaining is defined exactly
\* when the event has a duration and the snapshot has a current timer
\* value, and is then duration*1000 - timer.current, unclamped; the
\* scenario yields completed / active, running, 570000 / upcoming.
TimeRemainingWhenDurationAndCurrent ==
  lastOp = "render" =>
    /\ \A i \in ActivePositions :
         /\ (eventsWithStatus[i].timeRemaining # Undef)
              <=> (rundown[i].duration # Undef /\ CurrentTime.t = "number")
         /\ eventsWithStatus[i].timeRemaining # Undef =>
              eventsWithStatus[i].timeRemaining =
                Num(rundown[i].duration.n * 1000 - CurrentTime.n)
    /\ ScenarioState => ScenarioResult

\* C12, amended: for an active event timeRemaining is defined exactly
\* when the duration of the event is a number other than zero and
\* timer.current is not undefined, and is then duration*1000 minus
\* timer.current, a null timer.current counting as 0, unclamped; the
\* scenario yields completed / active, running, 570000 / upcoming.
TimeRemainingWhenTruthyDuration ==
  lastOp = "render" =>
    /\ \A i \in ActivePositions :
         /\ (eventsWithStatus[i].timeRemaining # Undef)
              <=> ( /\ rundown[i].duration \notin {Undef, Num(0)}
                    /\ CurrentTime # Undef )
         /\ eventsWithStatus[i].timeRemaining # Undef =>
              eventsWithStatus[i].timeRemaining =
                Num(rundown[i].duration.n * 1000
                      - (IF CurrentTime = NullV THEN 0 ELSE CurrentTime.n))
    /\ ScenarioState => ScenarioResult

\* the scenario was derived
TimeRemainingWhenTruthyDurationWitness ==
  /\ lastOp = "render"
  /\ ScenarioState
  /\ ScenarioResult

\* C18 as stated: an event that is neither skipped nor selected is
\* completed if and only if it lies before an active event and is
\* upcoming otherwise; without an active event no event is completed.
CompletedBeforeActive ==
  Derived =>
    /\ \A i \in 1..Len(rundown) :
         (~rundown[i].skip /\ Str(rundown[i].id) # SelectedId) =>
           eventsWithStatus[i].status =
             IF \E p \in ActivePositions : i < p THEN "completed" ELSE "upcoming"
    /\ ActivePositions = {} => CompletedPositions = {}

\* C18, amended: an event that is neither skipped nor selected is
\* completed if and only if it lies before the first position that holds
\* the selected id, whether the event at that position is active or
\* skipped, and is upcoming otherwise; when the selected id is missing or
\* absent from the rundown no event is completed.
CompletedBeforeSelected ==
  Derived =>
    /\ \A i \in 1..Len(rundown) :
         (~rundown[i].skip /\ Str(rundown[i].id) # SelectedId) =>
           eventsWithStatus[i].status =
             IF /\ PositionsOf(SelectedId) # {}
                /\ \A q \in PositionsOf(SelectedId) : i < q
               THEN "completed" ELSE "upcoming"
    /\ PositionsOf(SelectedId) = {} => CompletedPositions = {}

\* the selected event is flagged skip and the event before it is completed
CompletedBeforeSelectedWitness ==
  /\ lastOp = "render"
  /\ ActivePositions = {}
  /\ \E q \in 2..Len(rundown) :
       /\ Str(rundown[q].id) = SelectedId
       /\ rundown[q].skip
       /\ eventsWithStatus[q - 1].status = "completed"

(***************************************************************************)
(* Properties of custom-field editing.                                     *)
(***************************************************************************)
\* C13: when the PATCH of an edit rejects, the field shows the value it
\* showed before the edit began or the server value the card knows (the
\* claim takes the two to be the same), every other field shows what it
\* showed, and the rejection has reached the caller of the mutation.
RollbackRestoresField ==
  [][\A p \in card.patches :
       (lastOp' = "patch-fail" /\ card'.patches = card.patches \ {p}) =>
         /\ Displayed(card', p.field) \in {p.before, OrElse(card'.custom[p.field], Str(""))}
         /\ \A g \in FieldIds \ {p.field} :
              /\ card'.fieldValues[g] = card.fieldValues[g]
              /\ Displayed(card', g) = Displayed(card, g)]_vars

\* C14: from the moment a field is edited to v and until a request of the
\* field fails, the edit is cancelled or the rundown is refetched, the
\* field shows v, whether its request is pending, has succeeded or was
\* never issued.
EditedValueShown ==
  editHist.edited # NoEdit =>
    Displayed(card, editHist.edited.field) = editHist.edited.value

(***************************************************************************)
(* Properties of the control operations.                                   *)
(***************************************************************************)
Calls == [i \in 1..Len(http.log) |-> http.log[i].call]

\* one step of a control operation: a call adds one POST under /playback
\* to the requests; a response or a failure adds none; the snapshot stays
ControlStep ==
  /\ (lastOp' = "control") =>
        (/\ Len(http'.log) = Len(http.log) + 1
         /\ SubSeq(http'.log, 1, Len(http.log)) = http.log
         /\ http'.log[Len(http'.log)].request.method = "POST"
         /\ http'.log[Len(http'.log)].request.path[1] = "playback"
         /\ runtimeData' = runtimeData
         /\ queryCache' = queryCache)
  /\ (lastOp' \in {"control-ok", "control-fail"}) =>
        (/\ http'.log = http.log
         /\ runtimeData' = runtimeData
         /\ queryCache' = queryCache)

\* add-time(60) followed by remove-time(10) are the requests
\* POST /playback/addtime {seconds: 60}, POST /playback/removetime {seconds: 10}
TimeScenario ==
  (Calls = << [op |-> "add-time", arg |-> Num(60)],
              [op |-> "remove-time", arg |-> Num(10)] >>) =>
    (/\ http.log[1].request =
          [method |-> "POST", path |-> <<"playback", "addtime">>,
           body |-> [t |-> "object", seconds |-> Num(60)]]
     /\ http.log[2].request =
          [method |-> "POST", path |-> <<"playback", "removetime">>,
           body |-> [t |-> "object", seconds |-> Num(10)]])

\* C15: a control operation issues exactly one request, a POST under
\* /playback, and leaves the snapshot alone; no request is issued when a
\* response or a failure arrives (a failed operation is not retried), and
\* the snapshot is left alone then too; add-time(60) followed by
\* remove-time(10) are the two requests POST /playback/addtime
\* {seconds: 60} and POST /playback/removetime {seconds: 10}.
ControlIssuesOneRequest == [][ControlStep]_vars /\ []TimeScenario

\* add-time(60) and remove-time(10) were called while the consumer held a
\* snapshot, and the last of the two requests has just failed
ControlIssuesOneRequestWitness ==
  /\ Calls = << [op |-> "add-time", arg |-> Num(60)], [op |-> "remove-time", arg |-> Num(10)] >>
  /\ http.pending = {}
  /\ lastOp = "control-fail"
  /\ runtimeData[1] = FullSnapshot

\* the snapshot a consumer can see: the state of useWebSocketConnection or
\* the data of the runtime query
SeenSnapshots == {runtimeData[1], queryCache}

\* C16: with the streaming channel down, a state the server settles in is
\* eventually the snapshot seen by the consumers, by the periodic fetch.
FallbackRefreshesSnapshot ==
  \A v \in ServerStates : (<>[](backend.runtime = v)) => <>(v \in SeenSnapshots)

\* a tick of the reconnection timer makes a connection attempt and leaves
\* the timer armed: there is no count of attempts
TickAttempts ==
  (lastOp' = "reconnect-tick") =>
    (/\ websocket' # 0
     /\ socks[websocket'] = "NONE"
     /\ socks'[websocket'] = "CONNECTING"
     /\ reconnectTimers' = reconnectTimers)

LastWriteWinsPerSlice ==
  [][\A h \in Hooks : \A k \in Slices :
       ( /\ delivery.forwarded
         /\ delivery.payload.t = "object"
         /\ k \in DOMAIN delivery.payload
         /\ h \in SeqRange(delivery.invoked)
         /\ delivery'.forwarded
         /\ delivery'.payload.t = "object"
         /\ h \in SeqRange(delivery'.invoked)
         /\ mounted[h] = "yes" )
       => Get(runtimeData'[h], k) =
            IF k \in DOMAIN delivery'.payload
              THEN delivery'.payload[k]
              ELSE delivery.payload[k]]_vars

(***************************************************************************)
(* Properties of the probe timer.                                          *)
(***************************************************************************)
OpenSockets == {s \in Sockets : socks[s] = "OPEN"}

\* C20: the probe timer lives as long as the connection.  It is armed once
\* the channel has opened, at most one probe timer is armed, none is armed
\* while no socket is open, and a probe tick sends frames only on an open
\* channel.
ProbeTimerLivesWithConnection ==
  /\ (lastOp = "open") => probeTimers >= 1
  /\ probeTimers <= 1
  /\ (OpenSockets = {}) => probeTimers = 0
  /\ (lastOp = "probe-tick" /\ lastSent # <<>>) => IsOpenChannel

(***************************************************************************)
(* Properties of the envelope.                                             *)
(***************************************************************************)
HasField(pm, k) == k \in DOMAIN pm

\* the message handed to handleWebSocketMessage for the frame just handled
LastEnvelope == SelectEnvelope(lastFrame.value)

\* what the last message handed to the listeners, if it called them
PayloadAgrees(payload) == delivery.forwarded => delivery.payload = payload

\* C21 as stated: for an object frame, topic and payload come from the
\* frame if it has a topic field; else, if it has a type field, the topic is
\* the type and the payload is the data field when the frame has one and
\* the whole frame otherwise; else the topic is "unknown-data" and the
\* payload is the whole frame.
EnvelopeDataWhenPresent ==
  (lastOp = "message" /\ IsObjectFrame(lastFrame)) =>
    LET pm == lastFrame.value IN
      IF HasField(pm, "topic")
        THEN /\ LastEnvelope = [topic |-> pm.topic, payload |-> Get(pm, "payload")]
             /\ PayloadAgrees(Get(pm, "payload"))
      ELSE IF HasField(pm, "type")
        THEN /\ LastEnvelope = [topic |-> pm.type,
                                payload |-> IF HasField(pm, "data") THEN pm.data ELSE pm]
             /\ PayloadAgrees(IF HasField(pm, "data") THEN pm.data ELSE pm)
      ELSE /\ LastEnvelope = [topic |-> Str("unknown-data"), payload |-> pm]
           /\ PayloadAgrees(pm)

\* C21, amended: as above, but under a type field the payload is the data
\* field only when that field holds a truthy value; with no data field or a
\* falsy one (null, 0, "", false) the payload is the whole frame.
EnvelopeDataWhenTruthy ==
  (lastOp = "message" /\ IsObjectFrame(lastFrame)) =>
    LET pm == lastFrame.value IN
      IF HasField(pm, "topic")
        THEN /\ LastEnvelope = [topic |-> pm.topic, payload |-> Get(pm, "payload")]
             /\ PayloadAgrees(Get(pm, "payload"))
      ELSE IF HasField(pm, "type")
        THEN LET usable == HasField(pm, "data") /\ Truthy(pm.data) IN
               /\ LastEnvelope = [topic |-> pm.type,
                                  payload |-> IF usable THEN pm.data ELSE pm]
               /\ PayloadAgrees(IF usable THEN pm.data ELSE pm)
      ELSE /\ LastEnvelope = [topic |-> Str("unknown-data"), payload |-> pm]
           /\ PayloadAgrees(pm)

\* a frame with a type field and a data field of null has been handled and
\* the whole frame was handed to the listener
EnvelopeDataWhenTruthyWitness ==
  /\ lastOp = "message"
  /\ lastFrame = Json([t |-> "object", type |-> Str("timer"), data |-> NullV])
  /\ delivery.forwarded
  /\ delivery.payload = lastFrame.value
  /\ runtimeData[1] = lastFrame.value

(***************************************************************************)
(* Properties of the topic.                                                *)
(***************************************************************************)
\* the path the handler took for the frame just handled, and the topic it
\* recorded
LastHandled == HandleWebSocketMessage(LastEnvelope)

\* a textual topic is recorded in lower case ("unknown" if it is empty) and
\* is recognized exactly when its lower case form is a recognized topic
TextualTopicLowercased(topic) ==
  /\ LastHandled.topic = (IF topic.s = "" THEN "unknown" ELSE ToLowerCase(topic.s))
  /\ (LastHandled.path = "valid") = (ToLowerCase(topic.s) \in validTopics)
  /\ delivery.forwarded => LastHandled.forward

NoDuplicates(seq) == \A i, j \in 1..Len(seq) : seq[i] = seq[j] => i = j

\* the step of a forwarded message calls the listeners registered when the
\* message arrives, each once, with the payload of the message, and every
\* mounted consumer called holds that payload when the step ends
NotifiesEverySubscriberOnce ==
  (lastOp' = "message" /\ delivery'.forwarded) =>
    (/\ delivery'.invoked = wsListeners
     /\ NoDuplicates(delivery'.invoked)
     /\ delivery'.payload = OnMessageResult(lastFrame').payload
     /\ \A h \in SeqRange(wsListeners) :
          mounted[h] = "yes" => runtimeData'[h] = delivery'.payload)

\* the cleanup of a consumer that holds an unsubscribe function removes its
\* listener; a listener that was removed is not registered and not called
\* again
UnsubscribedStaysSilent ==
  \A h \in Hooks :
    /\ (lastOp' = "unmount" /\ mounted[h] = "yes" /\ mounted'[h] = "gone" /\ unsubscribe[h])
         => h \notin SeqRange(wsListeners')
    /\ (unsubscribe[h] /\ h \notin SeqRange(wsListeners))
         => (h \notin SeqRange(wsListeners') /\ h \notin SeqRange(delivery'.invoked))

ThrowingSubscriberIsolated ==
  [][(lastOp' = "message-throw") =>
       (/\ delivery'.forwarded
        /\ delivery'.invoked = wsListeners)]_vars

(***************************************************************************)
(* Properties of the ordered rundown.                                      *)
(***************************************************************************)
\* seq is order with some of its elements left out
IsSubsequence(seq, order) ==
  \E keep \in SUBSET (1..Len(order)) :
    seq = SelectSeq([i \in 1..Len(order) |-> IF i \in keep THEN order[i] ELSE ""],
                    LAMBDA x : x # "")

\* C24: the ordered rundown built from a response holds only events that
\* have an entry in the map, in the relative order of the order list, and
\* no event id twice.
OrderedRundownInvariant ==
  (lastOp = "fetch-rundown") =>
    LET ids == [i \in 1..Len(rundown) |-> rundown[i].id] IN
      /\ \A i \in 1..Len(rundown) :
           /\ ids[i] \in DOMAIN backend.normalized.rundown
           /\ rundown[i] = backend.normalized.rundown[ids[i]]
      /\ IsSubsequence(ids, backend.normalized.order)
      /\ NoDuplicates(ids)

(***************************************************************************)
(* Properties of overlapping edits.                                        *)
(***************************************************************************)
\* C25: when the request of a saved value fails after the user has typed a
\* newer value into the same field, still being edited, the field goes on
\* showing the newer value.
NewerValueSurvivesFailure ==
  [][\A p \in card.patches :
       ( /\ lastOp' = "patch-fail"
         /\ card'.patches = card.patches \ {p}
         /\ card.editingField = p.field
         /\ editHist.edited.field = p.field
         /\ editHist.edited.value # p.value
         /\ card.fieldValues[p.field] = editHist.edited.value )
       => Displayed(card', p.field) = editHist.edited.value]_vars

(***************************************************************************)
(* Properties of overlapping connections and of the teardown.              *)
(***************************************************************************)
\* C27: the close event of an older connection leaves the reference to a
\* newer open connection in place: when the connection the client refers to
\* is open before and after a close event, the client still refers to it,
\* so isWebSocketConnected stays true.
OlderCloseKeepsNewerConnection ==
  [][(lastOp' \in {"close", "fail"} /\ IsOpenChannel /\ socks'[websocket] = "OPEN")
       => (websocket' = websocket /\ IsOpenChannel')]_vars

\* C28: a consumer that was torn down holds no subscription: its listener
\* is not registered and is not called.
UnmountedHoldsNoSubscription ==
  \A h \in Hooks :
    mounted[h] = "gone" =>
      (h \notin SeqRange(wsListeners) /\ h \notin SeqRange(delivery.invoked))

\* C29: when one of several mounted consumers unmounts, the listeners of
\* the others stay registered and the connection they share stays open.
TeardownSparesOthers ==
  [][\A h \in Hooks : \A other \in Hooks \ {h} :
       ( /\ lastOp' = "unmount"
         /\ mounted[h] = "yes"
         /\ mounted'[h] = "gone"
         /\ mounted[other] = "yes"
         /\ other \in SeqRange(wsListeners)
         /\ IsOpenChannel )
       => (/\ other \in SeqRange(wsListeners')
           /\ socks'[websocket] = "OPEN"
           /\ websocket' = websocket)]_vars

\* C30: every payload handed to the subscribers is a non-null object,
\* never a string, a number or a boolean.
DeliveredPayloadIsObject ==
  delivery.forwarded =>
    (TypeOf(delivery.payload) = "object" /\ delivery.payload # NullV)

====
